---- MODULE Spec2Model ----
(***************************************************************************)
(* TwinSecure backend: sliding-window rate limiter, TTL response cache,    *)
(* multi-channel alert dispatch and the honeypot ingestion pipeline.       *)
(* Time is modelled in integer ticks; several calls may happen in one tick.*)
(***************************************************************************)
EXTENDS Integers, Sequences, FiniteSets, TLC

\* ---------------------------------------------------------------- bounds
MaxTime == 3            \* the clock stops advancing here
MaxCalls == 5           \* limiter calls explored per behaviour
MaxRequestsBound == 2   \* max_requests is drawn from 1..MaxRequestsBound
MaxWindowBound == 2     \* time_window is drawn from 1..MaxWindowBound

MaxCacheCalls == 3      \* cache calls explored per behaviour
MaxSizeBound == 2       \* max_size is drawn from 1..MaxSizeBound
MaxTtlBound == 2        \* default_ttl

MaxDispatchCalls == 2   \* dispatch calls explored per behaviour
LegacyMaxRequests == 1  \* AlertingClient's limiter, scaled down from 100 per window
LegacyWindow == 1       \* AlertingClient's limiter window, scaled down from 60 s

MaxCoroutines == 3      \* request coroutines calling check_rate_limit on one key

MaxRetryCalls == 2      \* _send_with_retry calls explored per behaviour

MaxEvents == 2          \* honeypot requests explored per behaviour

MaxWebRequests == 2     \* requests through CacheMiddleware explored per behaviour

MaxCallers == 2         \* tasks enriching at the same time
MaxEnrich == 3          \* enrichments begun per behaviour

LKeys == {"k1", "k2"}   \* rate-limit keys
CKeys == {"a", "b", "c"}  \* cache keys (hashed request keys)
TtlArgs == {0, 1}       \* set()'s ttl argument: None (or 0), or one tick
Values == {"v1", "v2"}  \* cached payloads

\* get_reset_time's None
NoTime == -1

VARIABLES
    now,            \* datetime.now() / time.time()
    max_requests,   \* RateLimiter.max_requests
    time_window,    \* RateLimiter.time_window
    requests,       \* RateLimiter.requests: key -> list of instants
    lcalls,         \* number of limiter calls made so far (bounded exploration)
    lhist,          \* history: per key, the check calls since construction or the key's last reset
    lallowed,       \* history: per key, instants of every allowed check, resets notwithstanding
    llast,          \* history: the last limiter call and what it returned
    cache,          \* ResponseCache.cache, as the dict's entries in insertion order
    max_size,       \* ResponseCache.max_size
    default_ttl,    \* ResponseCache.default_ttl
    hits,           \* ResponseCache.hits
    misses,         \* ResponseCache.misses
    ccalls,         \* number of cache calls made so far (bounded exploration)
    clast,          \* history: the last cache call, what it saw and what it returned
    cfresh,         \* history: set() calls with a new key since construction or clear(),
                    \* or -1 once any other call has changed the cache's contents
    enabled,        \* AlertingClient: the channels whose alerter is configured (not None)
    dpc,            \* send_alert in progress: "idle", the channel it is at, or "return"
    dfilter,        \* its channels argument ({} for None or an empty list)
    dresults,       \* its results dict so far
    dout,           \* history: what each attempted channel's send_alert did in this call
    dret,           \* history: the last dispatch call that ended, and what it returned
    dcalls,         \* number of dispatch calls begun so far (bounded exploration)
    preq,           \* per request: the JSON body posted to /honeypot, or NoBody
    hpc,            \* per request: "none", "rejected", "handled" (handler returned), "responded"
    resp,           \* per request: the HTTP response sent
    ppc,            \* per request: where its process_honeypot_data task is
    penr,           \* per request: ip_info and abuse_score of the task
    db,             \* the alerts table: the committed records, in commit order
    plog            \* history, per request: lookups made, record creations attempted
                    \* ("invalid": AlertCreate rejected the data, "raise": crud.alert.create
                    \* raised, "ok": committed), send_alert calls and the maps returned
    ,
    geoip_reader,   \* geoip.py's module-level reader: TRUE when a database is loaded
    api_key,        \* settings.ABUSEIPDB_API_KEY is set
    geo_memo,       \* lru_cache of _get_geoip_data_sync: ip -> cached result
    epc,            \* per caller: where its enrichment is
    eip,            \* per caller: the ip it enriches
    eres,           \* per caller: ip_info and abuse_score of its enrichment
    geo_calls,      \* history: per ip, number of geoip_reader.city(ip) invocations
    abuse_calls,    \* history: per ip, number of requests sent to the reputation provider
    estarted,       \* history: per ip, number of enrichments begun
    eoverlap        \* history: per ip, whether two lookups of it were ever in
                    \* _get_geoip_data_sync at the same time
    ,
    rl_enabled,     \* settings.ENABLE_RATE_LIMITING: RateLimiterMiddleware is installed
    mw,             \* per request: "none", "passed" (call_next was invoked) or "denied"
    rpath,          \* per request: its url path
    rhead           \* per request: the X-RateLimit-* headers set on its response
    ,
    wreq,           \* per request through CacheMiddleware: its method and path
    wpc,            \* per request: "none", "handler" (inside call_next) or "done"
    wresp           \* per request: the response dispatch returned (status, X-Cache
                    \* header, where it came from) and what the cache did for it
    ,
    rtry,           \* the _send_with_retry call in progress or last ended: channel,
                    \* keyword arguments, what happened at each attempt, how it ended
    rcalls          \* number of _send_with_retry calls begun so far (bounded exploration)
    ,
    aresp,          \* the provider answer a get_abuseipdb_score call is made against
    ascore          \* what that call returned, Pending before it has
    ,
    running,        \* the coroutine the event loop is running, 0 when none
    kpc,            \* per coroutine: where it is in check_rate_limit
    know,           \* per coroutine: its local now
    kres            \* per coroutine: what its check returned
    ,
    wlim            \* per web request: what RateLimiterMiddleware did with it

lvars == <<max_requests, time_window, requests, lcalls, lhist, lallowed, llast>>
cvars == <<cache, max_size, default_ttl, hits, misses, ccalls, clast, cfresh>>
dvars == <<enabled, dpc, dfilter, dresults, dout, dret, dcalls>>
pvars == <<preq, hpc, resp, ppc, penr, db, plog>>
evars == <<geoip_reader, api_key, geo_memo, epc, eip, eres, geo_calls, abuse_calls,
           estarted, eoverlap>>
mvars == <<rl_enabled, mw, rpath, rhead>>
wvars == <<wreq, wpc, wresp>>
rvars == <<rtry, rcalls>>
avars == <<aresp, ascore>>
kvars == <<running, kpc, know, kres>>
svars == <<wlim>>
vars == <<now, lvars, cvars, dvars, pvars, evars, mvars, wvars, rvars, avars, kvars, svars>>

\* what each component's calls leave alone
notL == <<cvars, dvars, pvars, evars, mvars, wvars, rvars, avars, kvars, svars>>
notC == <<lvars, dvars, pvars, evars, mvars, wvars, rvars, avars, kvars, svars>>
notD == <<cvars, pvars, evars, mvars, wvars, rvars, avars, kvars, svars>>
notP == <<now, lvars, cvars, dvars, evars, mvars, wvars, rvars, avars, kvars, svars>>
notE == <<now, lvars, cvars, dvars, pvars, mvars, wvars, rvars, avars, kvars, svars>>
notW == <<lvars, dvars, pvars, evars, mvars, rvars, avars, kvars, svars>>
notR == <<now, lvars, cvars, dvars, pvars, evars, mvars, wvars, avars, kvars, svars>>
notA == <<now, lvars, cvars, dvars, pvars, evars, mvars, wvars, rvars, kvars, svars>>
notK == <<cvars, dvars, pvars, evars, mvars, wvars, rvars, avars, svars>>
notS == <<dvars, pvars, evars, mvars, rvars, avars, kvars>>

\* ------------------------------------------------------------ helpers
RECURSIVE SeqMin(_)
SeqMin(s) == IF Len(s) = 1 THEN s[1]
             ELSE LET m == SeqMin(Tail(s)) IN IF s[1] <= m THEN s[1] ELSE m

Count(s, P(_)) == Cardinality({i \in 1..Len(s) : P(s[i])})

\* ------------------------------------------------------- RateLimiter
\* [t for t in self.requests[key] if t > window_start]
Live(t, window_start) == t > window_start

Prune(list, window_start) == SelectSeq(list, LAMBDA t : Live(t, window_start))

\* mutation: the limit test is off by one
OverLimit_OffByOne(list) == Len(list) > max_requests

\* len(self.requests[key]) >= self.max_requests
OverLimit(list) == Len(list) >= max_requests

\* the list check_rate_limit tests: missing key initialised to [], then pruned
Pruned(key) ==
    Prune(IF key \in DOMAIN requests THEN requests[key] ELSE <<>>, now - time_window)

\* mutation: the reset time forgets the window length
get_reset_time_NoWindow(key) ==
    IF key \notin DOMAIN requests \/ requests[key] = <<>> THEN NoTime
    ELSE SeqMin(requests[key])

get_reset_time(key) ==
    IF key \notin DOMAIN requests \/ requests[key] = <<>> THEN NoTime
    ELSE SeqMin(requests[key]) + time_window

\* mutation: remaining counts the list as stored, without pruning it
remaining_value_Unpruned(key) ==
    IF key \notin DOMAIN requests THEN max_requests
    ELSE LET n == Len(requests[key])
         IN IF max_requests - n > 0 THEN max_requests - n ELSE 0

remaining_value(key) ==
    IF key \notin DOMAIN requests THEN max_requests
    ELSE LET n == Len(Prune(requests[key], now - time_window))
         IN IF max_requests - n > 0 THEN max_requests - n ELSE 0

SetKey(f, key, val) == [k \in DOMAIN f \cup {key} |-> IF k = key THEN val ELSE f[k]]

\* mutation: a denied attempt is recorded too
Recorded_Always(list, ok) == Append(list, now)

\* self.requests[key].append(now) on the allowed path only
Recorded(list, ok) == IF ok THEN Append(list, now) ELSE list

check_rate_limit(key) ==
    /\ lcalls < MaxCalls
    /\ LET list == Pruned(key)
           ok == ~OverLimit(list)
       IN /\ requests' = SetKey(requests, key, Recorded(list, ok))
          /\ lhist' = [lhist EXCEPT ![key] = Append(@, [t |-> now, ok |-> ok])]
          /\ lallowed' = [lallowed EXCEPT ![key] = IF ok THEN Append(@, now) ELSE @]
          /\ llast' = [op |-> "check", key |-> key, t |-> now, ok |-> ok,
                       val |-> 0, resetBefore |-> get_reset_time(key)]
    /\ lcalls' = lcalls + 1
    /\ UNCHANGED <<now, max_requests, time_window, notL>>

get_remaining_requests(key) ==
    /\ lcalls < MaxCalls
    /\ requests' = IF key \in DOMAIN requests
                   THEN SetKey(requests, key, Prune(requests[key], now - time_window))
                   ELSE requests
    /\ llast' = [op |-> "remaining", key |-> key, t |-> now, ok |-> TRUE,
                 val |-> remaining_value(key), resetBefore |-> get_reset_time(key)]
    /\ lcalls' = lcalls + 1
    /\ UNCHANGED <<now, max_requests, time_window, lhist, lallowed, notL>>

\* reset(key) with a truthy key
reset_key(key) ==
    /\ lcalls < MaxCalls
    /\ requests' = SetKey(requests, key, <<>>)
    /\ lhist' = [lhist EXCEPT ![key] = <<>>]
    /\ llast' = [op |-> "reset", key |-> key, t |-> now, ok |-> TRUE,
                 val |-> 0, resetBefore |-> get_reset_time(key)]
    /\ lcalls' = lcalls + 1
    /\ UNCHANGED <<now, max_requests, time_window, lallowed, notL>>

\* reset() / reset(None): self.requests.clear()
reset_all ==
    /\ lcalls < MaxCalls
    /\ requests' = <<>>
    /\ lhist' = [k \in LKeys |-> <<>>]
    /\ llast' = [op |-> "reset_all", key |-> "", t |-> now, ok |-> TRUE,
                 val |-> 0, resetBefore |-> NoTime]
    /\ lcalls' = lcalls + 1
    /\ UNCHANGED <<now, max_requests, time_window, lallowed, notL>>

\* reset(""): the empty string is falsy, the else branch clears every key
reset_empty_key ==
    /\ lcalls < MaxCalls
    /\ requests' = <<>>
    /\ lhist' = [k \in LKeys |-> <<>>]
    /\ llast' = [op |-> "reset_empty", key |-> "", t |-> now, ok |-> TRUE,
                 val |-> 0, resetBefore |-> NoTime]
    /\ lcalls' = lcalls + 1
    /\ UNCHANGED <<now, max_requests, time_window, lallowed, notL>>

\* the clock advances (calls are made at non-decreasing times)
LTick ==
    /\ now < MaxTime
    /\ now' = now + 1
    /\ UNCHANGED <<lvars, notL>>

\* ------------------------------------------------------ ResponseCache
\* position of key in the dict, 0 when absent
CIndex(c, key) ==
    IF \E i \in 1..Len(c) : c[i].key = key
    THEN CHOOSE i \in 1..Len(c) : c[i].key = key ELSE 0

\* mutation: the delete leaves the entry where it is
Remove_Nothing(c, i) == c

Remove(c, i) == SubSeq(c, 1, i - 1) \o SubSeq(c, i + 1, Len(c))

\* mutation: the expiry comparison is inverted
Expired_Inverted(e, t) == e.expires_at > t

\* item["expires_at"] < time.time()
Expired(e, t) == e.expires_at < t

\* ttl or self.default_ttl (a ttl of None or 0 is falsy)
EffectiveTtl(ttl) == IF ttl = 0 THEN default_ttl ELSE ttl

\* len(self.cache) >= self.max_size
AtCapacity(c) == Len(c) >= max_size

\* mutation: eviction removes the first inserted entry
OldestIndex_FirstInserted(c) == 1

\* min(self.cache.keys(), key=expires_at): the first entry, in dict order, with
\* the least expires_at
OldestIndex(c) ==
    CHOOSE i \in 1..Len(c) :
        /\ \A j \in 1..Len(c) : c[i].expires_at <= c[j].expires_at
        /\ \A j \in 1..(i - 1) : c[j].expires_at > c[i].expires_at

\* expires_at of key's entry, NoTime when the key is absent
ExpiryOf(c, key) == IF CIndex(c, key) = 0 THEN NoTime ELSE c[CIndex(c, key)].expires_at

CLast(op, key, hit, data, evicted) ==
    [op |-> op, key |-> key, t |-> now, hit |-> hit, data |-> data,
     exp |-> ExpiryOf(cache, key), evicted |-> evicted]

cache_get(key) ==
    /\ ccalls < MaxCacheCalls
    /\ LET i == CIndex(cache, key)
       IN IF i = 0
          THEN /\ misses' = misses + 1
               /\ clast' = CLast("get", key, FALSE, "", 0)
               /\ UNCHANGED <<cache, hits, cfresh>>
          ELSE IF Expired(cache[i], now)
          THEN /\ cache' = Remove(cache, i)
               /\ misses' = misses + 1
               /\ clast' = CLast("get", key, FALSE, "", 0)
               /\ cfresh' = -1
               /\ UNCHANGED hits
          ELSE /\ hits' = hits + 1
               /\ clast' = CLast("get", key, TRUE, cache[i].data, 0)
               /\ UNCHANGED <<cache, misses, cfresh>>
    /\ ccalls' = ccalls + 1
    /\ UNCHANGED <<now, max_size, default_ttl, notC>>

cache_set(key, value, ttl) ==
    /\ ccalls < MaxCacheCalls
    /\ LET ev == IF AtCapacity(cache) THEN OldestIndex(cache) ELSE 0
           c1 == IF ev = 0 THEN cache ELSE Remove(cache, ev)
           e  == [key |-> key, data |-> value, expires_at |-> now + EffectiveTtl(ttl)]
           i  == CIndex(c1, key)
       IN /\ cache' = IF i = 0 THEN Append(c1, e) ELSE [c1 EXCEPT ![i] = e]
          /\ clast' = CLast("set", key, FALSE, value, ev)
          /\ cfresh' = IF cfresh >= 0 /\ CIndex(cache, key) = 0 THEN cfresh + 1 ELSE -1
    /\ ccalls' = ccalls + 1
    /\ UNCHANGED <<now, max_size, default_ttl, hits, misses, notC>>

cache_delete(key) ==
    /\ ccalls < MaxCacheCalls
    /\ LET i == CIndex(cache, key)
       IN /\ cache' = IF i = 0 THEN cache ELSE Remove(cache, i)
          /\ cfresh' = IF i = 0 THEN cfresh ELSE -1
    /\ clast' = CLast("delete", key, FALSE, "", 0)
    /\ ccalls' = ccalls + 1
    /\ UNCHANGED <<now, max_size, default_ttl, hits, misses, notC>>

cache_clear ==
    /\ ccalls < MaxCacheCalls
    /\ cache' = <<>>
    /\ cfresh' = 0
    /\ clast' = CLast("clear", "", FALSE, "", 0)
    /\ ccalls' = ccalls + 1
    /\ UNCHANGED <<now, max_size, default_ttl, hits, misses, notC>>

CTick ==
    /\ now < MaxTime
    /\ now' = now + 1
    /\ UNCHANGED <<cvars, notC>>


\* ----------------------------------------------------- AlertingClient
Channels == {"email", "slack", "discord"}     \* the alerter attributes of the client
ChannelOrder == <<"email", "slack", "discord">>   \* the order send_alert visits them in
LegacyNames == {"slack", "email", "discord"}  \* self.channels.keys()
\* channels arguments a caller may pass: None, one channel, two channels, and a
\* list with a name that is no channel
Filters == { {}, {"email"}, {"email", "slack"}, {"discord", "sms"} }
SendOutcomes == {"true", "false", "raise"}    \* alerter.send_alert: True, False or an exception

\* mutation: the channels argument is ignored
ShouldSend_IgnoreFilter(ch, filter) == ch \in enabled

\* self.<ch>_alerter and (not channels or "<ch>" in channels)
ShouldSend(ch, filter) == ch \in enabled /\ (filter = {} \/ ch \in filter)

\* mutation: send_alert lets a channel's exception escape
Guarded_Unprotected(outcome) == [raised |-> outcome = "raise", value |-> outcome = "true"]

\* try: results[ch] = await alerter.send_alert(...)  except Exception: results[ch] = False
Guarded(outcome) == [raised |-> FALSE, value |-> outcome = "true"]

NextChannel(ch) ==
    IF ch = ChannelOrder[Len(ChannelOrder)] THEN "return"
    ELSE ChannelOrder[1 + CHOOSE i \in 1..Len(ChannelOrder) : ChannelOrder[i] = ch]

\* a dispatch call that ended: its entry point, its channels argument, the return
\* path taken, whether it raised, the map returned, and what each channel whose
\* send was invoked did
DRet(entry, filter, path, raised, map, out) ==
    [entry |-> entry, filter |-> filter, path |-> path, raised |-> raised,
     map |-> map, out |-> out]

send_alert_begin(filter) ==
    /\ dpc = "idle" /\ dcalls < MaxDispatchCalls
    /\ dpc' = ChannelOrder[1]
    /\ dfilter' = filter
    /\ dresults' = <<>>
    /\ dout' = <<>>
    /\ dcalls' = dcalls + 1
    /\ UNCHANGED <<now, enabled, dret, lvars, notD>>

\* one "if alerter and ...: try ... except ..." block of send_alert
send_alert_channel(ch) ==
    /\ dpc = ch
    /\ IF ShouldSend(ch, dfilter)
       THEN \E outcome \in SendOutcomes :
              LET g == Guarded(outcome)
              IN /\ dout' = SetKey(dout, ch, outcome)
                 /\ IF g.raised
                    THEN /\ dpc' = "idle"
                         /\ dret' = DRet("send_alert", dfilter, "raise", TRUE, <<>>, dout')
                         /\ UNCHANGED dresults
                    ELSE /\ dpc' = NextChannel(ch)
                         /\ dresults' = SetKey(dresults, ch, g.value)
                         /\ UNCHANGED dret
       ELSE /\ dpc' = NextChannel(ch)
            /\ UNCHANGED <<dresults, dout, dret>>
    /\ UNCHANGED <<now, enabled, dfilter, dcalls, lvars, notD>>

\* return results
send_alert_return ==
    /\ dpc = "return"
    /\ dpc' = "idle"
    /\ dret' = DRet("send_alert", dfilter, "sent", FALSE, dresults, dout)
    /\ UNCHANGED <<now, enabled, dfilter, dresults, dout, dcalls, lvars, notD>>

\* mutation: every payload passes validation
validate_alert_payload_Anything(a) == TRUE

\* validate_alert_payload on {type, severity, message, payload}
validate_alert_payload(a) ==
    /\ a.type \in {"security", "performance", "system", "custom"}
    /\ a.severity \in {"critical", "error", "warning", "info"}
    /\ a.messageLen <= 1000
    /\ a.payload \in {"none", "dict"}

AlertInputs ==
    { [type |-> "security", severity |-> "critical", messageLen |-> 10, payload |-> "dict"],
      [type |-> "security", severity |-> "high", messageLen |-> 10, payload |-> "none"],
      [type |-> "custom", severity |-> "info", messageLen |-> 1001, payload |-> "none"] }

\* what self.channels[channel](title=..., message=..., severity=..., payload=...)
\* does: an unknown name is a KeyError, and none of the three functions takes
\* these keyword arguments
LegacyCallOutcome(ch) == IF ch \in LegacyNames THEN "TypeError" ELSE "KeyError"

\* the built-in subclasses of ConnectionError that the channel functions raise
ConnectionErrors == {"ConnectionError", "ConnectionRefusedError", "ConnectionAbortedError"}

\* backoff.on_exception(expo, (ConnectionError, TimeoutError), max_tries=3):
\* isinstance of either class
Retryable(outcome) == outcome \in ConnectionErrors \cup {"TimeoutError"}

\* send_to_channel: True when the call returns, False on any exception
send_to_channel(ch) == LegacyCallOutcome(ch) = "ok"

\* {channel: False for channel in self.channels.keys()}
AllFalse == [ch \in LegacyNames |-> FALSE]

\* the await-free body of send_alert_legacy: limiter, validation, gather
send_alert_legacy(alert, filter) ==
    /\ dpc = "idle" /\ dcalls < MaxDispatchCalls
    /\ LET list == Pruned("send_alert")
           allowed == ~OverLimit(list)
           channels == IF filter = {} THEN LegacyNames ELSE filter
       IN /\ requests' = SetKey(requests, "send_alert",
                                IF allowed THEN Append(list, now) ELSE list)
          /\ dret' = IF ~allowed
                     THEN DRet("legacy", filter, "denied", FALSE, AllFalse, <<>>)
                     ELSE IF ~validate_alert_payload(alert)
                     THEN DRet("legacy", filter, "invalid", FALSE, AllFalse, <<>>)
                     ELSE DRet("legacy", filter, "sent", FALSE,
                               [ch \in channels |-> send_to_channel(ch)],
                               [ch \in channels \cap LegacyNames |-> LegacyCallOutcome(ch)])
    /\ dcalls' = dcalls + 1
    /\ UNCHANGED <<now, max_requests, time_window, lcalls, lhist, lallowed, llast,
                   enabled, dpc, dfilter, dresults, dout, notD>>

DTick ==
    /\ now < MaxTime
    /\ now' = now + 1
    /\ UNCHANGED <<lvars, dvars, notD>>

\* --------------------------------------- AlertingClient._send_with_retry
max_tries == 3

\* the keyword arguments of a call: those send_alert_legacy and
\* send_report_notification pass, or the channel function's own parameters
KwArgs == {"legacy", "own"}

\* what the remote side does at one attempt
SmtpEvents == {"sent", "auth_rejected", "disconnected", "smtp_error", "socket_timeout",
               "unexpected"}
WebhookEvents == {"sent", "connect_error", "timeout", "status_4xx", "status_5xx",
                  "unexpected"}
RemoteEvents(ch) == IF ch = "email" THEN SmtpEvents ELSE WebhookEvents

\* send_email_alert.send_sync: the exception each SMTP failure is re-raised as
send_sync(ev) ==
    CASE ev = "sent"           -> "none"
      [] ev = "auth_rejected"  -> "ConnectionRefusedError"
      [] ev = "disconnected"   -> "ConnectionAbortedError"
      [] ev = "smtp_error"     -> "ConnectionError"
      [] ev = "socket_timeout" -> "ConnectionError"
      [] OTHER                 -> "RuntimeError"

\* send_discord_message, and client.py's send_slack_message: httpx.RequestError
\* and httpx.HTTPStatusError are both re-raised as ConnectionError
send_webhook(ev) ==
    CASE ev = "sent"                                   -> "none"
      [] ev \in {"connect_error", "timeout"}           -> "ConnectionError"
      [] ev \in {"status_4xx", "status_5xx"}           -> "ConnectionError"
      [] OTHER                                         -> "RuntimeError"

\* await self.channels[channel](**kwargs): "none" when it returns
ChannelCall(ch, kw, ev) ==
    IF kw = "legacy" THEN LegacyCallOutcome(ch)
    ELSE IF ch = "email" THEN send_sync(ev) ELSE send_webhook(ev)

\* mutation: backoff never runs out of tries
TriesLeft_Always(log) == TRUE

\* backoff's max_tries test after a failed attempt
TriesLeft(log) == Len(log) < max_tries

NoRetry == [pc |-> "idle", channel |-> "", kw |-> "", log |-> <<>>, raised |-> "none"]

\* a caller awaits self._send_with_retry(channel, **kwargs)
send_with_retry_call(ch, kw) ==
    /\ rtry.pc # "running" /\ rcalls < MaxRetryCalls
    /\ rtry' = [pc |-> "running", channel |-> ch, kw |-> kw, log |-> <<>>, raised |-> "none"]
    /\ rcalls' = rcalls + 1
    /\ UNCHANGED notR

\* one attempt of the decorated function, and backoff's decision after it; spent
\* says that max_time has run out
send_with_retry_attempt(ev, spent) ==
    /\ rtry.pc = "running"
    /\ ev \in RemoteEvents(rtry.channel)
    /\ LET exc == ChannelCall(rtry.channel, rtry.kw, ev)
           log == Append(rtry.log, [ev |-> IF rtry.kw = "legacy" THEN "not_sent" ELSE ev,
                                    exc |-> exc])
           again == exc # "none" /\ Retryable(exc) /\ TriesLeft(log) /\ ~spent
       IN rtry' = [rtry EXCEPT !.log = log,
                               !.pc = IF again THEN "running" ELSE "done",
                               !.raised = IF again THEN "none" ELSE exc]
    /\ UNCHANGED <<rcalls, notR>>


\* ------------------------------------------ honeypot ingestion pipeline
Events == 1..MaxEvents
IPs == {"203.0.113.7", "not-an-ip"}
Timestamps == {"2025-04-22T14:35:12", "yesterday"}
Bodies == [ip : IPs, ts : Timestamps]
NoBody == [ip |-> "", ts |-> ""]
NoResponse == [status |-> 0, body |-> "none"]
NoScore == -1                       \* abuse_score None
\* what geoip_reader.city(ip) does when get_geoip_data is called: there is no
\* reader, the address is found, it is not in the database, or the reader fails
GeoLookups == {"no_reader", "found", "not_found", "error"}

\* get_geoip_data / _get_geoip_data_sync: the dict on success, None otherwise
get_geoip_data(lookup) == IF lookup = "found" THEN "US" ELSE "none"

\* an answer of the reputation provider, as get_abuseipdb_score sees it: whether
\* an API key is configured, how the request ended, the status, what the body
\* parses to, what its 'data' member is, whether and how that carries
\* abuseConfidenceScore, and whether it carries a true isWhitelisted
AbuseOk ==
    [key |-> TRUE, net |-> "ok", status |-> 200, json |-> "object", data |-> "dict",
     score_kind |-> "absent", score |-> 0, whitelisted |-> FALSE]

AllAbuseResponses ==
    [key : BOOLEAN, net : {"ok", "timeout", "request_error"}, status : {200, 429, 404, 500},
     json : {"object", "array", "not_json"}, data : {"dict", "missing", "not_dict"},
     score_kind : {"absent", "int", "text"}, score : {0, 82, 150}, whitelisted : BOOLEAN]

\* the answers process_honeypot_data is run against: no API key is configured,
\* HTTP 429, a timeout, a failed request, another non-2xx status, a body that is
\* not JSON, JSON with no score in it, or JSON with data.abuseConfidenceScore set
AbuseResponses ==
    { [AbuseOk EXCEPT !.key = FALSE], [AbuseOk EXCEPT !.status = 429],
      [AbuseOk EXCEPT !.net = "timeout"], [AbuseOk EXCEPT !.net = "request_error"],
      [AbuseOk EXCEPT !.status = 500], [AbuseOk EXCEPT !.json = "not_json"], AbuseOk }
    \cup { [AbuseOk EXCEPT !.score_kind = "int", !.score = n] : n \in {82, 150} }

\* the else branch: 0 when data is a dict with a true isWhitelisted, else None
WhitelistedScore(r) == IF r.data = "dict" /\ r.whitelisted THEN 0 ELSE NoScore

\* get_abuseipdb_score: None without a key, on a timeout or failed request, on
\* 429 and on any other error status, and when the body is not a JSON object;
\* int(data['data']['abuseConfidenceScore']) when data is a dict with that key
\* (None when int() raises); otherwise the else branch
get_abuseipdb_score(r) ==
    IF ~r.key \/ r.net # "ok" \/ r.status # 200 \/ r.json # "object" THEN NoScore
    ELSE IF r.data = "dict" /\ r.score_kind # "absent"
    THEN IF r.score_kind = "int" THEN r.score ELSE NoScore
    ELSE WhitelistedScore(r)

GeoResults == {get_geoip_data(l) : l \in GeoLookups}
ScoreResults == {get_abuseipdb_score(r) : r \in AbuseResponses}
CreateOutcomes == {"ok", "raise"}   \* crud.alert.create: commits, or raises

\* ipaddress.ip_address(s) accepts s
ParsesAsIp(s) == s \in {"203.0.113.7", "2001:db8::1"}

\* pydantic parses the string as a datetime
ParsesAsDatetime(s) == s \in {"2025-04-22T14:35:12"}

\* mutation: source_ip is declared as a plain string
SchemaAccepts_AnyString(body) == TRUE

\* HoneypotData: source_ip: IPvAnyAddress, timestamp: str
SchemaAccepts(body) == ParsesAsIp(body.ip)

validate_ip(ip) == ParsesAsIp(ip)

\* AlertCreate(..., abuse_score=abuse_score, triggered_at=data.timestamp)
\* validates: triggered_at parses as a datetime, abuse_score is None or 0..100
AlertCreateValid(body, score) ==
    /\ ParsesAsDatetime(body.ts)
    /\ score = NoScore \/ (0 <= score /\ score <= 100)

\* mutation: the task is started by the handler instead of after the response
TaskMayStart_OnceAdded(e) == hpc[e] \in {"handled", "responded"}

\* background_tasks.add_task: the task runs once the response has been sent
TaskMayStart(e) == hpc[e] = "responded"

\* mutation: a failed create is logged and the task carries on
AfterCreate_CarryOn(outcome) == "notify"

\* created_alert = await crud.alert.create(...) inside try / except Exception
AfterCreate(outcome) == IF outcome = "ok" THEN "notify" ELSE "error"

\* except Exception as db_err: logged, and the task returns
AfterErrorCreate == "failed"

Logged(e, field, x) == [plog EXCEPT ![e][field] = Append(@, x)]

HoneypotPath == "/api/v1/honeypot/"
HealthPath == "/api/v1/health"
Paths == {HoneypotPath, HealthPath}

\* mutation: the middleware calls call_next whatever the limiter said
Reaches_WhateverTheVerdict(e, body) ==
    mw[e] # "none" /\ rpath[e] = HoneypotPath /\ preq[e] = body

\* the request gets to the honeypot route: directly when no rate limiter is
\* installed (requests are taken in the order of their ids), through
\* RateLimiterMiddleware's call_next when one is
Reaches(e, body) ==
    IF rl_enabled
    THEN mw[e] = "passed" /\ rpath[e] = HoneypotPath /\ preq[e] = body
    ELSE \A e2 \in Events : e2 < e => hpc[e2] # "none"

\* POST /honeypot: request validation, then receive_honeypot_trigger
receive_honeypot_trigger(e, body) ==
    /\ hpc[e] = "none"
    /\ Reaches(e, body)
    /\ preq' = [preq EXCEPT ![e] = body]
    /\ IF SchemaAccepts(body)
       THEN /\ hpc' = [hpc EXCEPT ![e] = "handled"]
            /\ ppc' = [ppc EXCEPT ![e] = "queued"]
            /\ UNCHANGED resp
       ELSE /\ hpc' = [hpc EXCEPT ![e] = "rejected"]
            /\ resp' = [resp EXCEPT ![e] = [status |-> 422, body |-> "validation error"]]
            /\ UNCHANGED ppc
    /\ UNCHANGED <<penr, db, plog, notP>>

\* the handler's return value is sent with status_code=HTTP_202_ACCEPTED
Respond(e) ==
    /\ hpc[e] = "handled"
    /\ hpc' = [hpc EXCEPT ![e] = "responded"]
    /\ resp' = [resp EXCEPT ![e] = [status |-> 202, body |-> "message, client_ip"]]
    /\ UNCHANGED <<preq, ppc, penr, db, plog, notP>>

\* process_honeypot_data up to its first await
P_Start(e) ==
    /\ ppc[e] = "queued" /\ TaskMayStart(e)
    /\ ppc' = [ppc EXCEPT ![e] = IF validate_ip(preq[e].ip) THEN "geo" ELSE "dropped"]
    /\ UNCHANGED <<preq, hpc, resp, penr, db, plog, notP>>

\* ip_info = await get_geoip_data(ip_str)
P_Geo(e) ==
    /\ ppc[e] = "geo"
    /\ \E l \in GeoLookups :
          /\ penr' = [penr EXCEPT ![e].geo = get_geoip_data(l)]
          /\ plog' = Logged(e, "lookups", "geo")
    /\ ppc' = [ppc EXCEPT ![e] = "abuse"]
    /\ UNCHANGED <<preq, hpc, resp, db, notP>>

\* abuse_score = await get_abuseipdb_score(ip_str)
P_Abuse(e) ==
    /\ ppc[e] = "abuse"
    /\ \E r \in AbuseResponses :
          /\ penr' = [penr EXCEPT ![e].score = get_abuseipdb_score(r)]
          /\ plog' = Logged(e, "lookups", "abuse")
    /\ ppc' = [ppc EXCEPT ![e] = "create"]
    /\ UNCHANGED <<preq, hpc, resp, db, notP>>

Record(e, type, geo, score) == [event |-> e, type |-> type, geo |-> geo, score |-> score]

\* alert_in = AlertCreate(...); created_alert = await crud.alert.create(...)
P_Create(e) ==
    /\ ppc[e] = "create"
    /\ IF ~AlertCreateValid(preq[e], penr[e].score)
       THEN /\ ppc' = [ppc EXCEPT ![e] = AfterCreate("invalid")]
            /\ plog' = Logged(e, "creates", <<"Honeypot Triggered", "invalid">>)
            /\ UNCHANGED db
       ELSE \E outcome \in CreateOutcomes :
              /\ ppc' = [ppc EXCEPT ![e] = AfterCreate(outcome)]
              /\ plog' = Logged(e, "creates", <<"Honeypot Triggered", outcome>>)
              /\ db' = IF outcome = "ok"
                       THEN Append(db, Record(e, "Honeypot Triggered",
                                              penr[e].geo, penr[e].score))
                       ELSE db
    /\ UNCHANGED <<preq, hpc, resp, penr, notP>>

\* await alert_client.send_alert(alert_data=created_alert), channels=None
P_Notify(e) ==
    /\ ppc[e] = "notify"
    /\ \E outs \in [{ch \in Channels : ShouldSend(ch, {})} -> SendOutcomes] :
          IF \E ch \in DOMAIN outs : Guarded(outs[ch]).raised
          THEN /\ ppc' = [ppc EXCEPT ![e] = "error"]
               /\ plog' = Logged(e, "sends", [raised |-> TRUE, map |-> <<>>])
          ELSE /\ ppc' = [ppc EXCEPT ![e] = "done"]
               /\ plog' = Logged(e, "sends",
                                 [raised |-> FALSE,
                                  map |-> [ch \in DOMAIN outs |-> Guarded(outs[ch]).value]])
    /\ UNCHANGED <<preq, hpc, resp, penr, db, notP>>

\* the except branch: AlertCreate(alert_type="Honeypot Processing Error", ...)
\* and crud.alert.create, inside try / except Exception
P_Error(e) ==
    /\ ppc[e] = "error"
    /\ IF ~AlertCreateValid(preq[e], NoScore)
       THEN /\ plog' = Logged(e, "creates", <<"Honeypot Processing Error", "invalid">>)
            /\ UNCHANGED db
       ELSE \E outcome \in CreateOutcomes :
              /\ plog' = Logged(e, "creates", <<"Honeypot Processing Error", outcome>>)
              /\ db' = IF outcome = "ok"
                       THEN Append(db, Record(e, "Honeypot Processing Error", "none", NoScore))
                       ELSE db
    /\ ppc' = [ppc EXCEPT ![e] = AfterErrorCreate]
    /\ UNCHANGED <<preq, hpc, resp, penr, notP>>

\* -------------------------------------------- RateLimiterMiddleware
Clients == {"198.51.100.20"}        \* identifiers: X-Forwarded-For's first ip or the client host
NoHeaders == <<>>
TooMany == [status |-> 429, body |-> "Rate limit exceeded. Please try again later."]

\* any(pattern.match(path) for pattern in self.exclude_patterns), with the
\* patterns main.py installs
Excluded(path) == path = HealthPath

\* max(0, max_requests - len(list)), what get_remaining_requests returns
Remaining(list) == IF max_requests - Len(list) > 0 THEN max_requests - Len(list) ELSE 0

\* RateLimiterMiddleware.dispatch up to its return or its call_next
rl_dispatch(e, path, id, body) ==
    /\ rl_enabled /\ mw[e] = "none"
    /\ \A e2 \in Events : e2 < e => mw[e2] # "none"
    /\ (path = HoneypotPath) = (body # NoBody)
    /\ rpath' = [rpath EXCEPT ![e] = path]
    /\ preq' = [preq EXCEPT ![e] = body]
    /\ IF Excluded(path)
       THEN /\ mw' = [mw EXCEPT ![e] = "passed"]
            /\ UNCHANGED <<requests, rhead, resp>>
       ELSE LET list == Pruned(id)
                allowed == ~OverLimit(list)
                after == IF allowed THEN Append(list, now) ELSE list
            IN /\ requests' = SetKey(requests, id, after)
               /\ IF allowed
                  THEN /\ mw' = [mw EXCEPT ![e] = "passed"]
                       /\ rhead' = [rhead EXCEPT ![e] =
                                      [limit |-> max_requests, remaining |-> Remaining(after)]]
                       /\ UNCHANGED resp
                  ELSE /\ mw' = [mw EXCEPT ![e] = "denied"]
                       /\ rhead' = [rhead EXCEPT ![e] =
                                      [limit |-> max_requests, remaining |-> 0,
                                       reset |-> now + time_window]]
                       /\ resp' = [resp EXCEPT ![e] = TooMany]
    /\ UNCHANGED <<now, max_requests, time_window, lcalls, lhist, lallowed, llast,
                   rl_enabled, hpc, ppc, penr, db, plog, cvars, dvars, evars, wvars,
                   rvars, avars, kvars, svars>>

\* the health route, reached through call_next
health_check(e) ==
    /\ hpc[e] = "none" /\ mw[e] = "passed" /\ rpath[e] = HealthPath
    /\ hpc' = [hpc EXCEPT ![e] = "served"]
    /\ resp' = [resp EXCEPT ![e] = [status |-> 200, body |-> "health"]]
    /\ UNCHANGED <<preq, ppc, penr, db, plog, notP>>

\* -------------------------------------------------- CacheMiddleware
WebRequests == 1..MaxWebRequests
Methods == {"GET", "HEAD", "POST"}
WebPaths == {"/api/v1/alerts", "/api/v1/auth/login", "/docs"}
Statuses == {200, 404}              \* what the route behind the middleware answers
Users == {"alice", "bob"}           \* the callers an Authorization header stands for
OneUser == {"alice"}
NoReq == [method |-> "", path |-> "", auth |-> ""]
NoResp == [status |-> 0, xcache |-> "", from |-> "", t |-> NoTime, exp |-> NoTime,
           handler |-> 0, failed |-> "", content |-> ""]

\* what a route answers: a status and a body made for the caller who asked
RouteResponse(req, status) == [status_code |-> status, content |-> req.auth]

\* path.startswith(p) for a p in the default cacheable_paths / exclude_paths
UnderCacheablePrefix(path) == path \in {"/api/v1/alerts", "/api/v1/auth/login", HealthPath}
UnderExcludedPrefix(path) == path \in {"/api/v1/auth/login", HealthPath}

\* CacheMiddleware.is_cacheable
is_cacheable(req) ==
    /\ req.method \in {"GET", "HEAD"}
    /\ ~UnderExcludedPrefix(req.path)
    /\ UnderCacheablePrefix(req.path)

\* CacheMiddleware.get_cache_key: a hash of path, query and the vary headers
\* (Accept, Accept-Encoding); the requests here differ in method, path and
\* Authorization, of which only the path enters the key
get_cache_key(req) == req.path

\* mutation: an entry is served however old it is
GetHits_Stale(c, key, t) == CIndex(c, key) # 0

\* ResponseCache.get finds a live entry
GetHits(c, key, t) == CIndex(c, key) # 0 /\ ~Expired(c[CIndex(c, key)], t)

\* the dict after ResponseCache.get: an expired entry of the key is deleted
AfterGet(c, key, t) ==
    IF CIndex(c, key) # 0 /\ Expired(c[CIndex(c, key)], t)
    THEN Remove(c, CIndex(c, key)) ELSE c

\* ResponseCache.set raises: min() of an empty dict, when max_size <= 0
SetRaises(c) == AtCapacity(c) /\ Len(c) = 0

\* the dict after ResponseCache.set
AfterSet(c, key, value, ttl, t) ==
    LET ev == IF AtCapacity(c) THEN OldestIndex(c) ELSE 0
        c1 == IF ev = 0 THEN c ELSE Remove(c, ev)
        e  == [key |-> key, data |-> value, expires_at |-> t + EffectiveTtl(ttl)]
        i  == CIndex(c1, key)
    IN IF i = 0 THEN Append(c1, e) ELSE [c1 EXCEPT ![i] = e]

\* mutation: every status is stored
Storable_AnyStatus(status) == TRUE

\* 200 <= response.status_code < 400
Storable(status) == 200 <= status /\ status < 400

\* CacheMiddleware.dispatch up to its return of a cached response or its call_next
cm_dispatch(r, method, path, auth) ==
    /\ wpc[r] = "none"
    /\ \A r2 \in WebRequests : r2 < r => wpc[r2] # "none"
    /\ LET req == [method |-> method, path |-> path, auth |-> auth]
           key == get_cache_key(req)
       IN /\ wreq' = [wreq EXCEPT ![r] = req]
          /\ IF ~is_cacheable(req)
             THEN /\ wpc' = [wpc EXCEPT ![r] = "handler"]
                  /\ UNCHANGED <<cache, hits, misses, wresp>>
             ELSE /\ cache' = AfterGet(cache, key, now)
                  /\ IF GetHits(cache, key, now)
                     THEN /\ hits' = hits + 1
                          /\ wpc' = [wpc EXCEPT ![r] = "done"]
                          /\ wresp' = [wresp EXCEPT ![r] =
                                [status |-> cache[CIndex(cache, key)].data.status_code,
                                 xcache |-> "HIT", from |-> "cache", t |-> now,
                                 exp |-> ExpiryOf(cache, key), handler |-> 0,
                                 failed |-> "",
                                 content |-> cache[CIndex(cache, key)].data.content]]
                          /\ UNCHANGED misses
                     ELSE /\ misses' = misses + 1
                          /\ wpc' = [wpc EXCEPT ![r] = "handler"]
                          /\ UNCHANGED <<hits, wresp>>
    /\ UNCHANGED <<now, max_size, default_ttl, ccalls, clast, cfresh, notW>>

\* call_next returns the route's response; dispatch stores it when it may and
\* returns it
cm_finish(r, status) ==
    /\ wpc[r] = "handler"
    /\ wpc' = [wpc EXCEPT ![r] = "done"]
    /\ LET key == get_cache_key(wreq[r])
           out(st, xc, from, failed) ==
               [status |-> st, xcache |-> xc, from |-> from, t |-> now, exp |-> NoTime,
                handler |-> status, failed |-> failed,
                content |-> IF from = "error" THEN "" ELSE wreq[r].auth]
       IN IF ~is_cacheable(wreq[r]) \/ ~Storable(status)
          THEN /\ wresp' = [wresp EXCEPT ![r] = out(status, "", "handler", "")]
               /\ UNCHANGED cache
          ELSE IF SetRaises(cache)
          THEN /\ wresp' = [wresp EXCEPT ![r] = out(500, "", "error", "set")]
               /\ UNCHANGED cache
          ELSE /\ wresp' = [wresp EXCEPT ![r] = out(status, "MISS", "handler", "")]
               /\ cache' = AfterSet(cache, key, RouteResponse(wreq[r], status), 0, now)
    /\ UNCHANGED <<now, max_size, default_ttl, hits, misses, ccalls, clast, cfresh,
                   wreq, notW>>

WTick ==
    /\ now < MaxTime
    /\ now' = now + 1
    /\ UNCHANGED <<cvars, wvars, notW>>

\* ------------------------------------------------------- enrichment
\* get_geoip_data and get_abuseipdb_score as process_honeypot_data calls them,
\* one after the other, from tasks that interleave at their awaits
Callers == 1..MaxCallers
EIPs == {"203.0.113.7", "198.51.100.9"}
NoIp == ""

RECURSIVE SumOver(_, _)
SumOver(f, S) == IF S = {} THEN 0
                 ELSE LET x == CHOOSE y \in S : TRUE IN f[x] + SumOver(f, S \ {x})

EStartedTotal == SumOver(estarted, EIPs)

\* the lookups of ip that are inside _get_geoip_data_sync (past the memo miss)
InCity(ip) == {c \in Callers : epc[c] = "city" /\ eip[c] = ip}

\* mutation: the memo is never consulted
MemoHit_Never(memo, ip) == FALSE

\* lru_cache wrapper: the key is in the cache
MemoHit(memo, ip) == ip \in DOMAIN memo

\* get_abuseipdb_score sends one request per call when the key is configured
Requests(key) == IF key THEN 1 ELSE 0

\* a task reaches ip_info = await get_geoip_data(ip_str)
enrich_begin(c, ip) ==
    /\ epc[c] = "idle"
    /\ EStartedTotal < MaxEnrich
    /\ epc' = [epc EXCEPT ![c] = "geo"]
    /\ eip' = [eip EXCEPT ![c] = ip]
    /\ eres' = [eres EXCEPT ![c] = [geo |-> "none", score |-> NoScore]]
    /\ estarted' = [estarted EXCEPT ![ip] = @ + 1]
    /\ UNCHANGED <<geoip_reader, api_key, geo_memo, geo_calls, abuse_calls, eoverlap, notE>>

\* get_geoip_data: None without a reader, else the cached helper in the executor;
\* the lru_cache wrapper returns a cached result or goes on to call the helper
geo_lookup(c) ==
    /\ epc[c] = "geo"
    /\ IF ~geoip_reader
       THEN /\ epc' = [epc EXCEPT ![c] = "abuse"]
            /\ UNCHANGED <<eres, eoverlap>>
       ELSE IF MemoHit(geo_memo, eip[c])
       THEN /\ epc' = [epc EXCEPT ![c] = "abuse"]
            /\ eres' = [eres EXCEPT ![c].geo = geo_memo[eip[c]]]
            /\ UNCHANGED eoverlap
       ELSE /\ epc' = [epc EXCEPT ![c] = "city"]
            /\ eoverlap' = [eoverlap EXCEPT ![eip[c]] = @ \/ InCity(eip[c]) # {}]
            /\ UNCHANGED eres
    /\ UNCHANGED <<geoip_reader, api_key, geo_memo, eip, geo_calls, abuse_calls, estarted, notE>>

\* _get_geoip_data_sync runs geoip_reader.city(ip); the wrapper stores its result
geo_city(c) ==
    /\ epc[c] = "city"
    /\ \E l \in GeoLookups \ {"no_reader"} :
          /\ eres' = [eres EXCEPT ![c].geo = get_geoip_data(l)]
          /\ geo_memo' = SetKey(geo_memo, eip[c], get_geoip_data(l))
    /\ geo_calls' = [geo_calls EXCEPT ![eip[c]] = @ + 1]
    /\ epc' = [epc EXCEPT ![c] = "abuse"]
    /\ UNCHANGED <<geoip_reader, api_key, eip, abuse_calls, estarted, eoverlap, notE>>

\* abuse_score = await get_abuseipdb_score(ip_str)
abuse_lookup(c) ==
    /\ epc[c] = "abuse"
    /\ \E r \in AbuseResponses :
          /\ r.key = api_key
          /\ eres' = [eres EXCEPT ![c].score = get_abuseipdb_score(r)]
    /\ abuse_calls' = [abuse_calls EXCEPT ![eip[c]] = @ + Requests(api_key)]
    /\ epc' = [epc EXCEPT ![c] = "idle"]
    /\ UNCHANGED <<geoip_reader, api_key, geo_memo, eip, geo_calls, estarted, eoverlap, notE>>

\* ------------------- check_rate_limit as coroutines on one event loop
Coroutines == 1..MaxCoroutines
SharedKey == "k1"

\* mutation: the coroutine yields to the event loop between the length test and
\* the append
Awaits_BeforeAppend(pc) == pc = "append"

\* whether the body of check_rate_limit has an await before the statement at
\* pc: it has none
Awaits(pc) == FALSE

\* the event loop runs one coroutine at a time and switches only where the
\* running one awaits
MayRun(c) == running = c \/ (running = 0 /\ (kpc[c] = "idle" \/ Awaits(kpc[c])))
Yield(c, pc) == IF pc = "done" \/ Awaits(pc) THEN 0 ELSE c

\* now = datetime.now(); window_start = now - timedelta(seconds=self.time_window)
k_enter(c) ==
    /\ kpc[c] = "idle" /\ MayRun(c)
    /\ know' = [know EXCEPT ![c] = now]
    /\ kpc' = [kpc EXCEPT ![c] = "prune"]
    /\ running' = Yield(c, "prune")
    /\ UNCHANGED <<kres, requests>>

\* if key not in self.requests: ...; self.requests[key] = [t for t in ... if t > window_start]
k_prune(c) ==
    /\ kpc[c] = "prune" /\ MayRun(c)
    /\ requests' = SetKey(requests, SharedKey,
                          Prune(IF SharedKey \in DOMAIN requests THEN requests[SharedKey] ELSE <<>>,
                                know[c] - time_window))
    /\ kpc' = [kpc EXCEPT ![c] = "test"]
    /\ running' = Yield(c, "test")
    /\ UNCHANGED <<know, kres>>

\* if len(self.requests[key]) >= self.max_requests: return False
k_test(c) ==
    /\ kpc[c] = "test" /\ MayRun(c)
    /\ LET pc == IF OverLimit(requests[SharedKey]) THEN "done" ELSE "append"
       IN /\ kpc' = [kpc EXCEPT ![c] = pc]
          /\ kres' = [kres EXCEPT ![c] = IF pc = "done" THEN "denied" ELSE @]
          /\ running' = Yield(c, pc)
    /\ UNCHANGED <<know, requests>>

\* self.requests[key].append(now); return True
k_append(c) ==
    /\ kpc[c] = "append" /\ MayRun(c)
    /\ requests' = SetKey(requests, SharedKey, Append(requests[SharedKey], know[c]))
    /\ kpc' = [kpc EXCEPT ![c] = "done"]
    /\ kres' = [kres EXCEPT ![c] = "allowed"]
    /\ running' = Yield(c, "done")
    /\ UNCHANGED know

\* the clock advances, whatever the coroutines are doing
KTick == now < MaxTime /\ now' = now + 1 /\ UNCHANGED <<kvars, requests>>

\* a call of get_abuseipdb_score against the answer drawn for it
Pending == -2
get_abuseipdb_score_call ==
    /\ ascore = Pending
    /\ ascore' = get_abuseipdb_score(aresp)
    /\ UNCHANGED <<aresp, notA>>

\* ------------------------------------------- components as constructed
\* no web request has reached RateLimiterMiddleware
SFresh == wlim = [r \in WebRequests |-> "none"]

\* no coroutine has called check_rate_limit
KFresh ==
    /\ running = 0
    /\ kpc = [c \in Coroutines |-> "idle"]
    /\ know = [c \in Coroutines |-> NoTime]
    /\ kres = [c \in Coroutines |-> "none"]

\* no reputation lookup under test
AIdle == aresp = AbuseOk /\ ascore = Pending

\* no enrichment made yet
EFresh ==
    /\ geo_memo = <<>>
    /\ epc = [c \in Callers |-> "idle"]
    /\ eip = [c \in Callers |-> NoIp]
    /\ eres = [c \in Callers |-> [geo |-> "none", score |-> NoScore]]
    /\ geo_calls = [ip \in EIPs |-> 0]
    /\ abuse_calls = [ip \in EIPs |-> 0]
    /\ estarted = [ip \in EIPs |-> 0]
    /\ eoverlap = [ip \in EIPs |-> FALSE]

EIdle == EFresh /\ geoip_reader = FALSE /\ api_key = FALSE

\* no request has reached the middleware
MFresh ==
    /\ mw = [e \in Events |-> "none"]
    /\ rpath = [e \in Events |-> ""]
    /\ rhead = [e \in Events |-> NoHeaders]

\* the application without RateLimiterMiddleware
MIdle == MFresh /\ rl_enabled = FALSE

\* no _send_with_retry call made
RFresh == rtry = NoRetry /\ rcalls = 0

\* no request has reached CacheMiddleware
WFresh ==
    /\ wreq = [r \in WebRequests |-> NoReq]
    /\ wpc = [r \in WebRequests |-> "none"]
    /\ wresp = [r \in WebRequests |-> NoResp]

\* the limiter as constructed (with one configuration, where it is not the subject)
LFresh ==
    /\ requests = <<>>
    /\ lcalls = 0
    /\ lhist = [k \in LKeys |-> <<>>]
    /\ lallowed = [k \in LKeys |-> <<>>]
    /\ llast = [op |-> "init", key |-> "", t |-> 0, ok |-> TRUE, val |-> 0,
                resetBefore |-> NoTime]

LIdle == LFresh /\ max_requests = 1 /\ time_window = 1

\* the cache as constructed
CFresh ==
    /\ cache = <<>>
    /\ hits = 0
    /\ misses = 0
    /\ ccalls = 0
    /\ cfresh = 0
    /\ clast = [op |-> "init", key |-> "", t |-> 0, hit |-> FALSE, data |-> "",
                exp |-> NoTime, evicted |-> 0]

CIdle == CFresh /\ max_size = 1 /\ default_ttl = 1

\* the client between calls; which alerters exist is set per specification
DFresh ==
    /\ dpc = "idle"
    /\ dfilter = {}
    /\ dresults = <<>>
    /\ dout = <<>>
    /\ dret = DRet("none", {}, "none", FALSE, <<>>, <<>>)
    /\ dcalls = 0

DIdle == DFresh /\ enabled = {}

\* no request received yet
PFresh ==
    /\ preq = [e \in Events |-> NoBody]
    /\ hpc = [e \in Events |-> "none"]
    /\ resp = [e \in Events |-> NoResponse]
    /\ ppc = [e \in Events |-> "none"]
    /\ penr = [e \in Events |-> [geo |-> "none", score |-> NoScore]]
    /\ db = <<>>
    /\ plog = [e \in Events |-> [lookups |-> <<>>, creates |-> <<>>, sends |-> <<>>]]

\* ------------------------------------------------------ specifications
LInit ==
    /\ now = 0
    /\ CIdle /\ DIdle /\ PFresh /\ EIdle /\ MIdle /\ WFresh /\ RFresh /\ AIdle /\ KFresh /\ SFresh
    /\ max_requests \in 1..MaxRequestsBound
    /\ time_window \in 1..MaxWindowBound
    /\ LFresh

LNext ==
    \/ \E key \in LKeys : check_rate_limit(key)
    \/ \E key \in LKeys : get_remaining_requests(key)
    \/ \E key \in LKeys : reset_key(key)
    \/ reset_all
    \/ reset_empty_key
    \/ LTick

SpecLimiter == LInit /\ [][LNext]_vars

CInit ==
    /\ now = 0
    /\ LIdle /\ DIdle /\ PFresh /\ EIdle /\ MIdle /\ WFresh /\ RFresh /\ AIdle /\ KFresh /\ SFresh
    /\ max_size \in 1..MaxSizeBound
    /\ default_ttl = MaxTtlBound
    /\ CFresh

CNext ==
    \/ \E key \in CKeys : cache_get(key)
    \/ \E key \in CKeys, value \in Values, ttl \in TtlArgs : cache_set(key, value, ttl)
    \/ \E key \in CKeys : cache_delete(key)
    \/ cache_clear
    \/ CTick

SpecCache == CInit /\ [][CNext]_vars

\* AlertingClient(email_config, slack_config, discord_config) with any
\* combination of alerters, and its RateLimiter
DInit ==
    /\ now = 0
    /\ CIdle /\ PFresh /\ EIdle /\ MIdle /\ WFresh /\ RFresh /\ AIdle /\ KFresh /\ SFresh
    /\ LFresh /\ max_requests = LegacyMaxRequests /\ time_window = LegacyWindow
    /\ DFresh /\ enabled \in SUBSET Channels

DNext ==
    \/ \E filter \in Filters : send_alert_begin(filter)
    \/ \E ch \in Channels : send_alert_channel(ch)
    \/ send_alert_return
    \/ \E alert \in AlertInputs, filter \in Filters : send_alert_legacy(alert, filter)
    \/ DTick

SpecDispatch == DInit /\ [][DNext]_vars

\* the application receiving honeypot requests; alert_client is taken with any
\* combination of alerters
PInit ==
    /\ now = 0
    /\ LIdle /\ CIdle
    /\ DFresh /\ enabled \in {{}, {"slack"}, Channels}
    /\ PFresh /\ EIdle /\ MIdle /\ WFresh /\ RFresh /\ AIdle /\ KFresh /\ SFresh

PNext ==
    \/ \E e \in Events, body \in Bodies : receive_honeypot_trigger(e, body)
    \/ \E e \in Events : Respond(e)
    \/ \E e \in Events : P_Start(e)
    \/ \E e \in Events : P_Geo(e)
    \/ \E e \in Events : P_Abuse(e)
    \/ \E e \in Events : P_Create(e)
    \/ \E e \in Events : P_Notify(e)
    \/ \E e \in Events : P_Error(e)

SpecPipeline == PInit /\ [][PNext]_vars

\* tasks enriching ips, with or without a geo database and an API key
EInit ==
    /\ now = 0
    /\ LIdle /\ CIdle /\ DIdle /\ PFresh /\ MIdle /\ WFresh /\ RFresh /\ AIdle /\ KFresh /\ SFresh
    /\ geoip_reader \in BOOLEAN /\ api_key \in BOOLEAN
    /\ EFresh

ENext ==
    \/ \E c \in Callers, ip \in EIPs : enrich_begin(c, ip)
    \/ \E c \in Callers : geo_lookup(c)
    \/ \E c \in Callers : geo_city(c)
    \/ \E c \in Callers : abuse_lookup(c)

SpecEnrich == EInit /\ [][ENext]_vars

\* get_abuseipdb_score against every answer of the provider
AInit ==
    /\ now = 0
    /\ LIdle /\ CIdle /\ DIdle /\ PFresh /\ EIdle /\ MIdle /\ WFresh /\ RFresh /\ KFresh /\ SFresh
    /\ aresp \in AllAbuseResponses
    /\ ascore = Pending

ANext == get_abuseipdb_score_call

SpecAbuse == AInit /\ [][ANext]_vars

\* coroutines of one event loop calling check_rate_limit on one key
KInit ==
    /\ now = 0
    /\ CIdle /\ DIdle /\ PFresh /\ EIdle /\ MIdle /\ WFresh /\ RFresh /\ AIdle
    /\ LFresh /\ max_requests \in 1..MaxRequestsBound /\ time_window \in 1..MaxWindowBound
    /\ KFresh /\ SFresh

KStep(c) == k_enter(c) \/ k_prune(c) \/ k_test(c) \/ k_append(c)

KNext ==
    \/ \E c \in Coroutines :
          /\ KStep(c)
          /\ UNCHANGED <<now, max_requests, time_window, lcalls, lhist, lallowed, llast, notK>>
    \/ KTick /\ UNCHANGED <<max_requests, time_window, lcalls, lhist, lallowed, llast, notK>>

SpecLoop == KInit /\ [][KNext]_vars

\* an AlertingClient whose _send_with_retry is called
RInit ==
    /\ now = 0
    /\ LIdle /\ CIdle /\ DIdle /\ PFresh /\ EIdle /\ MIdle /\ WFresh
    /\ RFresh /\ AIdle /\ KFresh /\ SFresh

RNext ==
    \/ \E ch \in LegacyNames, kw \in KwArgs : send_with_retry_call(ch, kw)
    \/ \E ev \in SmtpEvents \cup WebhookEvents, spent \in BOOLEAN :
          send_with_retry_attempt(ev, spent)

SpecRetry == RInit /\ [][RNext]_vars

\* every attempt returns: the channel functions bound their network calls
\* (httpx timeout=10.0, smtplib timeout=15)
SpecRetryFair ==
    SpecRetry /\ WF_vars(\E ev \in SmtpEvents \cup WebhookEvents, spent \in BOOLEAN :
                            send_with_retry_attempt(ev, spent))

\* ------------------------------- the middleware stack of the application
\* app.add_middleware puts each middleware in front of those added before it:
\* CacheMiddleware, added last, receives a request first and reaches
\* RateLimiterMiddleware through call_next
StackPaths == {"/api/v1/alerts", HealthPath}
StackMethods == {"GET", "POST"}
StackStatuses == {200, 404}

\* RateLimiterMiddleware.dispatch, reached by CacheMiddleware's call_next
rl_inner(r, id) ==
    /\ wpc[r] = "handler" /\ wlim[r] = "none"
    /\ IF Excluded(wreq[r].path)
       THEN /\ wlim' = [wlim EXCEPT ![r] = "skipped"]
            /\ UNCHANGED requests
       ELSE LET list == Pruned(id)
                allowed == ~OverLimit(list)
            IN /\ requests' = SetKey(requests, id, Recorded(list, allowed))
               /\ wlim' = [wlim EXCEPT ![r] = IF allowed THEN "passed" ELSE "denied"]
    /\ UNCHANGED <<now, max_requests, time_window, lcalls, lhist, lallowed, llast,
                   cvars, wvars, notS>>

\* the limiter let the request through and the route answered
stack_route(r, status) == wlim[r] \in {"skipped", "passed"} /\ cm_finish(r, status)

\* the limiter answered 429 itself
stack_denied(r) == wlim[r] = "denied" /\ cm_finish(r, TooMany.status)

\* CacheMiddleware over a ResponseCache of any configured size, zero included
CacheSizes == {0, 1}

WInit ==
    /\ now = 0
    /\ LIdle /\ DIdle /\ PFresh /\ EIdle /\ MIdle
    /\ CFresh /\ max_size \in CacheSizes /\ default_ttl = 1
    /\ WFresh /\ RFresh /\ AIdle /\ KFresh /\ SFresh

WNext ==
    \/ \E r \in WebRequests, method \in Methods, path \in WebPaths, auth \in OneUser :
          cm_dispatch(r, method, path, auth)
    \/ \E r \in WebRequests, status \in Statuses : cm_finish(r, status)
    \/ WTick

SpecCacheMw == WInit /\ [][WNext]_vars

\* the application's routes behind RateLimiterMiddleware behind CacheMiddleware
SInit ==
    /\ now = 0
    /\ DIdle /\ PFresh /\ EIdle /\ MIdle /\ RFresh /\ AIdle /\ KFresh
    /\ LFresh /\ max_requests = 1 /\ time_window \in 1..MaxWindowBound
    /\ CFresh /\ max_size = 1 /\ default_ttl = 1
    /\ WFresh /\ SFresh

SNext ==
    \/ \E r \in WebRequests, method \in StackMethods, path \in StackPaths, auth \in Users :
          cm_dispatch(r, method, path, auth)
    \/ \E r \in WebRequests, id \in Clients : rl_inner(r, id)
    \/ \E r \in WebRequests, status \in StackStatuses : stack_route(r, status)
    \/ \E r \in WebRequests : stack_denied(r)
    \/ WTick

SpecStack == SInit /\ [][SNext]_vars

\* the application with RateLimiterMiddleware in front of its routes
IngestLimits == {1, 2}

IInit ==
    /\ now = 0
    /\ CIdle /\ EIdle
    /\ LFresh /\ max_requests \in IngestLimits /\ time_window = 1
    /\ DFresh /\ enabled \in {{}, {"slack"}}
    /\ PFresh
    /\ MFresh /\ rl_enabled = TRUE
    /\ WFresh /\ RFresh /\ AIdle /\ KFresh /\ SFresh

INext ==
    \/ \E e \in Events, path \in Paths, id \in Clients, body \in Bodies \cup {NoBody} :
          rl_dispatch(e, path, id, body)
    \/ \E e \in Events : health_check(e)
    \/ PNext

SpecIngest == IInit /\ [][INext]_vars

\* ------------------------------------------------ claims: RateLimiter
LiveCount(list) == Count(list, LAMBDA t : Live(t, now - time_window))
AllowedSinceReset(key) ==
    Count(lhist[key], LAMBDA c : c.ok /\ Live(c.t, now - time_window))

\* C1 (as amended): a key's window never holds more than max_requests live
\* instants, and no more than max_requests of the check(key) calls made since
\* the key's last reset are allowed within one trailing window.
C1_WindowBounded ==
    \A key \in LKeys :
        /\ key \in DOMAIN requests => LiveCount(requests[key]) <= max_requests
        /\ AllowedSinceReset(key) <= max_requests

\* C1 (as stated): the window bound, and no more than max_requests check(key)
\* calls are ever allowed within one trailing window, resets or not.
C1_AllowedEverBounded ==
    \A key \in LKeys :
        /\ key \in DOMAIN requests => LiveCount(requests[key]) <= max_requests
        /\ LiveCount(lallowed[key]) <= max_requests

C1_Witness ==
    /\ llast.op = "check" /\ ~llast.ok
    /\ LiveCount(requests[llast.key]) = max_requests
    /\ max_requests > 1
    /\ Len(lallowed[llast.key]) > max_requests    \* the key was reset before

\* C2: from an empty window the first max_requests checks made inside one window
\* are allowed and the next one is denied; a check made later than
\* get_reset_time(key) is allowed.
InFirstWindow(h, i) == h[i].t < h[1].t + time_window

C2_AllowThenDenyThenRecover ==
    /\ \A key \in LKeys : \A i \in 1..Len(lhist[key]) :
          InFirstWindow(lhist[key], i) =>
              /\ i <= max_requests => lhist[key][i].ok
              /\ i = max_requests + 1 => ~lhist[key][i].ok
    /\ (llast.op = "check" /\ llast.resetBefore # NoTime /\ llast.t > llast.resetBefore)
          => llast.ok

C2_Witness ==
    /\ llast.op = "check" /\ llast.ok
    /\ llast.resetBefore # NoTime /\ llast.t > llast.resetBefore
    /\ LET h == lhist[llast.key]
       IN /\ Len(h) = max_requests + 2
          /\ InFirstWindow(h, max_requests + 1)
          /\ ~h[max_requests + 1].ok

\* ---------------------------------------------- claims: ResponseCache
\* the last call was a get of a key that was stored
GotStored == clast.op = "get" /\ clast.exp # NoTime

\* C3 (as amended): get never returns a stored value once now > expires_at; at
\* the expiry instant itself the entry is still served.
C3_NoValuePastExpiry ==
    GotStored =>
        /\ clast.t > clast.exp => ~clast.hit
        /\ clast.t = clast.exp => clast.hit

\* C3 (as stated): get returns a miss from the expiry instant onward, the
\* instant itself included.
C3_MissFromExpiryInstant ==
    (GotStored /\ clast.t >= clast.exp) => ~clast.hit

C3_Witness ==
    /\ GotStored /\ clast.t > clast.exp /\ ~clast.hit
    /\ CIndex(cache, clast.key) = 0

\* an entry of the cache that a set() of another key removes in this step
EvictedNow(i) ==
    /\ clast'.op = "set" /\ ccalls' = ccalls + 1
    /\ cache[i].key # clast'.key
    /\ CIndex(cache', cache[i].key) = 0

\* C4: after max_size + k sets of distinct keys (k > 0) the cache holds exactly
\* max_size entries, and an entry removed by eviction had the smallest
\* expires_at of all entries present at that moment.
C4_EvictsEarliestExpiry ==
    /\ [](cfresh > max_size => Len(cache) = max_size)
    /\ []((cfresh >= 0 /\ cfresh <= max_size) => Len(cache) = cfresh)
    /\ [][\A i \in 1..Len(cache) : EvictedNow(i) =>
              \A j \in 1..Len(cache) : cache[i].expires_at <= cache[j].expires_at]_vars

C4_Witness ==
    /\ cfresh > max_size /\ max_size > 1
    /\ clast.op = "set" /\ clast.evicted > 1

\* --------------------------------------------- claims: AlertingClient
\* the channels a call with this filter has to attempt
Selected(filter) == {ch \in Channels : ch \in enabled /\ (filter = {} \/ ch \in filter)}
Entries(map, b) == {ch \in DOMAIN map : map[ch] = b}

\* C5: send_alert never raises; a channel whose send fails or throws gets the
\* entry false, every other selected channel is still attempted and reports its
\* own result, and a map is returned even when every channel fails.
C5_DispatchNeverRaises ==
    dret.entry = "send_alert" =>
        /\ ~dret.raised
        /\ \A ch \in Selected(dret.filter) :
              /\ ch \in DOMAIN dret.out
              /\ ch \in DOMAIN dret.map
              /\ dret.map[ch] = (dret.out[ch] = "true")
        /\ (Cardinality(Selected(dret.filter)) = 3
            /\ Cardinality({ch \in DOMAIN dret.out : dret.out[ch] = "raise"}) = 1
            /\ Cardinality({ch \in DOMAIN dret.out : dret.out[ch] = "true"}) = 2)
              => /\ Cardinality(DOMAIN dret.map) = 3
                 /\ Cardinality(Entries(dret.map, FALSE)) = 1
                 /\ Cardinality(Entries(dret.map, TRUE)) = 2

C5_Witness ==
    /\ dret.entry = "send_alert" /\ enabled = Channels /\ dret.filter = {}
    /\ dret.out = [ch \in Channels |-> IF ch = "email" THEN "raise" ELSE "true"]
    /\ dret.map = [ch \in Channels |-> ch # "email"]

Ack == [status |-> 202, body |-> "message, client_ip"]
Started(e) == ppc[e] \notin {"none", "queued"}
Untouched(e) ==
    /\ plog[e] = [lookups |-> <<>>, creates |-> <<>>, sends |-> <<>>]
    /\ \A i \in 1..Len(db) : db[i].event # e
Malformed(e) == preq[e] # NoBody /\ ~ParsesAsIp(preq[e].ip)
FirstCreate(e, outcome) ==
    plog[e].creates # <<>> /\ plog[e].creates[1] = <<"Honeypot Triggered", outcome>>

\* C7: an accepted event is answered with 202 and {message, client_ip} before
\* any enrichment, persistence or notification step of it has run, and the
\* response is the same whatever those steps do afterwards.
C7_AckBeforeProcessing ==
    \A e \in Events :
        /\ Started(e) => hpc[e] = "responded"
        /\ hpc[e] = "handled" => Untouched(e)
        /\ hpc[e] = "responded" => resp[e] = Ack

C7_Witness ==
    \E e \in Events :
        /\ resp[e] = Ack /\ ppc[e] = "failed"
        /\ Len(plog[e].creates) = 2
        /\ \A i \in 1..2 : plog[e].creates[i][2] = "raise"

C9_CreateFailureIsTerminal ==
    \A e \in Events : (FirstCreate(e, "raise") \/ FirstCreate(e, "invalid")) =>
        /\ plog[e].sends = <<>>
        /\ ppc[e] \in {"error", "failed"}
        /\ ppc[e] = "error" => Len(plog[e].creates) = 1
        /\ ppc[e] = "failed" =>
              /\ Len(plog[e].creates) = 2
              /\ plog[e].creates[2][1] = "Honeypot Processing Error"

C9_Witness ==
    \E e \in Events :
        /\ FirstCreate(e, "raise") /\ ppc[e] = "failed"
        /\ plog[e].creates[2] = <<"Honeypot Processing Error", "raise">>
        /\ \A i \in 1..Len(db) : db[i].event # e

\* C10: once the event's record is persisted, a notification step in which any
\* or all channels fail leaves the record in place and unaltered, creates no
\* "processing error" record, and the pipeline ends in Done.
C10_NotificationIsBestEffort ==
    \A e \in Events : FirstCreate(e, "ok") =>
        /\ \E i \in 1..Len(db) :
              db[i] = Record(e, "Honeypot Triggered", penr[e].geo, penr[e].score)
        /\ \A i \in 1..Len(db) : db[i].event = e => db[i].type = "Honeypot Triggered"
        /\ Len(plog[e].creates) = 1
        /\ ppc[e] \in {"notify", "done"}
        /\ plog[e].sends # <<>> => ppc[e] = "done" /\ ~plog[e].sends[1].raised

C10_Witness ==
    \E e \in Events :
        /\ FirstCreate(e, "ok") /\ ppc[e] = "done" /\ enabled = Channels
        /\ plog[e].sends = << [raised |-> FALSE, map |-> [ch \in Channels |-> FALSE]] >>

\* ------------------------------------------------ claims: enrichment
Enriched(e) == ppc[e] \notin {"none", "queued", "dropped", "geo", "abuse"}

\* C11 (as stated): enrichment never raises and never blocks the pipeline:
\* whatever the geo database and the reputation provider answer, the event
\* goes on to record creation, its record is persisted with the geo and score
\* enrichment produced (null when a lookup failed) unless the timestamp or
\* the database makes the creation fail, and dispatch is then attempted.
C11_EnrichmentNeverBlocks ==
    \A e \in Events :
        /\ ppc[e] = "error" => plog[e].creates # <<>>
        /\ Enriched(e) => plog[e].lookups = <<"geo", "abuse">>
        /\ ParsesAsDatetime(preq[e].ts) => ~FirstCreate(e, "invalid")
        /\ FirstCreate(e, "ok") =>
              /\ \E i \in 1..Len(db) :
                    db[i] = Record(e, "Honeypot Triggered", penr[e].geo, penr[e].score)
              /\ ppc[e] \in {"notify", "done"}

\* enrichments of ip whose get_abuseipdb_score call has returned
Completed(ip) == estarted[ip] - Cardinality({c \in Callers : eip[c] = ip /\ epc[c] # "idle"})

C13_DeniedNeverReachesHandler ==
    \A e \in Events : mw[e] = "denied" =>
        /\ ~Excluded(rpath[e])
        /\ resp[e] = TooMany
        /\ DOMAIN rhead[e] = {"limit", "remaining", "reset"}
        /\ rhead[e].limit = max_requests /\ rhead[e].remaining = 0
        /\ rhead[e].reset = now + time_window
        /\ hpc[e] = "none" /\ ppc[e] = "none"
        /\ Untouched(e)

C13_Witness ==
    \E e \in Events :
        /\ mw[e] = "denied" /\ rpath[e] = HoneypotPath /\ resp[e].status = 429
        /\ \E e2 \in Events : e2 < e /\ ppc[e2] = "done" /\ rhead[e2].remaining = 0

\* a finished GET or HEAD request on a cacheable, non-excluded path
Answered(r) == wpc[r] = "done" /\ is_cacheable(wreq[r])

\* C14 (as stated): every response to a GET or HEAD request on a cacheable path
\* carries X-Cache HIT or MISS: HIT exactly when it was served from an unexpired
\* entry without invoking the handler, MISS whenever the handler was invoked,
\* whatever status the handler returned.
C14_AlwaysHitOrMiss ==
    \A r \in WebRequests : Answered(r) =>
        /\ wresp[r].xcache \in {"HIT", "MISS"}
        /\ wresp[r].xcache = "HIT" <=>
              (wresp[r].from = "cache" /\ wresp[r].handler = 0 /\ wresp[r].t <= wresp[r].exp)
        /\ wresp[r].handler # 0 => wresp[r].xcache = "MISS"

\* C14 (amended): a response served from an unexpired entry, the handler not
\* invoked, carries X-Cache HIT and nothing else does; a handler response with
\* 200 <= status < 400 that was stored carries X-Cache MISS; a handler response
\* with any other status, and the error raised by a failing store, carry no
\* X-Cache header; requests that are not cacheable never carry the header.
C14_MissOnlyWhenStored ==
    \A r \in WebRequests : wpc[r] = "done" =>
        /\ wresp[r].xcache = "HIT" <=>
              (wresp[r].from = "cache" /\ wresp[r].handler = 0 /\ wresp[r].t <= wresp[r].exp)
        /\ wresp[r].xcache = "MISS" <=>
              /\ is_cacheable(wreq[r])
              /\ wresp[r].from = "handler"
              /\ Storable(wresp[r].handler)
              /\ wresp[r].status = wresp[r].handler
        /\ wresp[r].xcache \in {"HIT", "MISS", ""}
        /\ wresp[r].xcache = "HIT" => is_cacheable(wreq[r])

\* a hit, a stored miss and an unmarked 404 on the same cacheable path
C14_Witness ==
    \E r1, r2 \in WebRequests :
        /\ Answered(r1) /\ Answered(r2)
        /\ wreq[r1].path = wreq[r2].path
        /\ wresp[r1].xcache = "MISS" /\ wresp[r1].handler = 200
        /\ wresp[r2].xcache = "HIT" /\ wresp[r2].status = 200 /\ wresp[r2].handler = 0

\* C15 (as stated): when a cache operation fails during a request, the
\* handler's response is still returned and no error response stands for the
\* cache failure.
C15_CacheFailureIsAMiss ==
    \A r \in WebRequests : (wpc[r] = "done" /\ wresp[r].failed # "") =>
        /\ wresp[r].from = "handler"
        /\ wresp[r].status = wresp[r].handler

\* the check(key) calls since the key's last reset that were allowed at an
\* instant still inside the window that ends at time t
LiveAllowedAt(key, t) == Count(lhist[key], LAMBDA c : c.ok /\ Live(c.t, t - time_window))
AllowedCount(key) == Count(lhist[key], LAMBDA c : c.ok)

\* C16: remaining(key) returns max(0, max_requests - live instants of key),
\* pruned as check prunes; it returns max_requests for a key never seen; it
\* records no request (a window holds only instants of allowed checks); with
\* max_requests = 2, three checks of one key inside one window answer
\* [true, true, false] and remaining is then 0.
C16_RemainingCountsLiveInstants ==
    /\ \A k \in DOMAIN requests : Len(requests[k]) <= AllowedCount(k)
    /\ llast.op = "remaining" =>
          LET k == llast.key
              left == max_requests - LiveAllowedAt(k, llast.t)
          IN /\ llast.val = IF left > 0 THEN left ELSE 0
             /\ lhist[k] = <<>> => llast.val = max_requests
             /\ k \in DOMAIN requests =>
                   /\ Len(requests[k]) = LiveAllowedAt(k, llast.t)
                   /\ \A i \in 1..Len(requests[k]) : Live(requests[k][i], llast.t - time_window)
             /\ (llast.val > 0) = ~OverLimit(Prune(IF k \in DOMAIN requests THEN requests[k] ELSE <<>>,
                                                  llast.t - time_window))
             /\ (/\ max_requests = 2
                 /\ Len(lhist[k]) = 3
                 /\ \A i \in 1..3 : Live(lhist[k][i].t, llast.t - time_window))
                => /\ <<lhist[k][1].ok, lhist[k][2].ok, lhist[k][3].ok>> = <<TRUE, TRUE, FALSE>>
                   /\ llast.val = 0

\* the scenario, with another key never seen
C16_Witness ==
    /\ max_requests = 2
    /\ llast.op = "remaining" /\ llast.val = 0
    /\ Len(lhist[llast.key]) = 3
    /\ <<lhist[llast.key][1].ok, lhist[llast.key][2].ok, lhist[llast.key][3].ok>> = <<TRUE, TRUE, FALSE>>
    /\ \E k2 \in LKeys : k2 \notin DOMAIN requests

\* reset(key) for a key that is a string
ResetWith(key) == IF key = "" THEN reset_empty_key ELSE reset_key(key)

\* C17 (as stated): reset(key) with a key string empties exactly that key's
\* window and leaves the window of every other key unchanged, for every key
\* string; only reset() with no key clears all keys.
C17_ResetTouchesOneKey ==
    [][\A key \in LKeys \cup {""} : ResetWith(key) =>
          /\ key \in DOMAIN requests' => requests'[key] = <<>>
          /\ \A k2 \in DOMAIN requests \ {key} :
                k2 \in DOMAIN requests' /\ requests'[k2] = requests[k2]]_vars

\* C17, for the keys that are not empty: reset(key) empties that key's window
\* and leaves every other key's window as it was.
C17_NonEmptyKeyReset ==
    [][\A key \in LKeys : reset_key(key) =>
          /\ key \in DOMAIN requests' /\ requests'[key] = <<>>
          /\ \A k2 \in DOMAIN requests \ {key} :
                k2 \in DOMAIN requests' /\ requests'[k2] = requests[k2]]_vars

\* C18: get on a key whose entry has expired is a miss, adds one to the miss
\* counter and nothing to the hit counter, removes that entry, so the cache
\* holds one entry fewer, and leaves every other entry in place.
C18_ExpiredGetRemovesOneEntry ==
    [][\A key \in CKeys :
          (/\ cache_get(key)
           /\ CIndex(cache, key) # 0
           /\ cache[CIndex(cache, key)].expires_at < now) =>
          /\ ~clast'.hit
          /\ misses' = misses + 1 /\ hits' = hits
          /\ CIndex(cache', key) = 0
          /\ Len(cache') = Len(cache) - 1
          /\ \A i \in 1..Len(cache) :
                cache[i].key # key => \E j \in 1..Len(cache') : cache'[j] = cache[i]]_vars

\* an expired entry was just read, and another entry is still stored
C18_Witness ==
    /\ clast.op = "get" /\ clast.exp # NoTime /\ clast.exp < clast.t /\ ~clast.hit
    /\ misses >= 1
    /\ Len(cache) >= 1
    /\ CIndex(cache, clast.key) = 0

\* the selected channels whose send has not been invoked yet in the send_alert
\* call in progress
NotStarted == {ch \in Selected(dfilter) : ch \notin DOMAIN dout}

\* C19 (as stated): the sends of all selected channels are started concurrently,
\* so no channel's send is still to start once another channel's send has
\* finished, and the call returns only after every selected channel has reached
\* a final outcome.
C19_ConcurrentSendsJoined ==
    /\ (dpc # "idle" /\ DOMAIN dout # {}) => NotStarted = {}
    /\ dret.entry = "send_alert" => \A ch \in Selected(dret.filter) : ch \in DOMAIN dret.out
    /\ (dret.entry = "legacy" /\ dret.path = "sent") =>
          \A ch \in DOMAIN dret.map \cap LegacyNames : ch \in DOMAIN dret.out

\* what kind of failure a remote event is
TransportFailures == {"disconnected", "socket_timeout", "connect_error", "timeout"}
ConfigurationFailures == {"auth_rejected", "status_4xx"}

RecordedAs(r) == r.raised = "none"

AttemptsBounded ==
    /\ Len(rtry.log) <= max_tries
    /\ rtry.pc = "done" =>
          /\ Len(rtry.log) >= 1
          /\ RecordedAs(rtry) = (rtry.log[Len(rtry.log)].exc = "none")
          /\ (\A i \in 1..Len(rtry.log) : rtry.log[i].ev \in TransportFailures) =>
                ~RecordedAs(rtry)

Enriching == {"geo", "abuse"}
Persisting == {"create"}
Notifying == {"notify"}
Failed == {"error", "failed"}
TriggeredCommitted(e) ==
    \E i \in 1..Len(db) : db[i].event = e /\ db[i].type = "Honeypot Triggered"

StepsInOrder ==
    \A e \in Events :
        /\ ppc[e] \in Enriching \cup Persisting \cup Notifying \cup Failed \cup {"done"} =>
              validate_ip(preq[e].ip)
        /\ ppc[e] \in Enriching => plog[e].creates = <<>> /\ plog[e].sends = <<>>
        /\ plog[e].creates # <<>> => plog[e].lookups = <<"geo", "abuse">>
        /\ ppc[e] \in Persisting => plog[e].lookups = <<"geo", "abuse">> /\ plog[e].sends = <<>>
        /\ (ppc[e] \in Notifying \/ plog[e].sends # <<>>) =>
              FirstCreate(e, "ok") /\ TriggeredCommitted(e)
        /\ Len(plog[e].sends) <= 1

\* C22: for each event the steps occur in the order validate, enrich, persist,
\* notify: no record creation before both lookups have returned, no
\* notification unless the event's record was committed first, and Failed is
\* entered only from Enriching, Persisting or Notifying.
C22_PipelineOrder ==
    /\ []StepsInOrder
    /\ [][\A e \in Events :
            /\ (ppc'[e] \in Failed /\ ppc[e] \notin Failed) =>
                  ppc[e] \in Enriching \cup Persisting \cup Notifying
            /\ (ppc'[e] \in Persisting /\ ppc[e] \notin Persisting) => ppc[e] \in Enriching
            /\ (ppc'[e] \in Notifying /\ ppc[e] \notin Notifying) => ppc[e] \in Persisting
            /\ (ppc'[e] = "done" /\ ppc[e] # "done") => ppc[e] \in Notifying]_vars

\* one event went through to Done, another failed at persisting
C22_Witness ==
    \E e1, e2 \in Events :
        /\ ppc[e1] = "done" /\ Len(plog[e1].sends) = 1 /\ TriggeredCommitted(e1)
        /\ ppc[e2] = "failed" /\ plog[e2].sends = <<>> /\ ~TriggeredCommitted(e2)

\* C23: a check(key) that returns false adds no instant to any window (so the
\* key's reset time is not pushed back by denied calls), and any check(key)
\* leaves the window of every other key unchanged.
C23_DeniedCheckRecordsNothing ==
    [][\A key \in LKeys : check_rate_limit(key) =>
          /\ \A k2 \in DOMAIN requests' \ {key} :
                k2 \in DOMAIN requests /\ requests'[k2] = requests[k2]
          /\ \A k2 \in DOMAIN requests : k2 \in DOMAIN requests'
          /\ ~llast'.ok =>
                /\ key \in DOMAIN requests
                /\ requests'[key] = Prune(requests[key], now - time_window)
                /\ Len(requests'[key]) <= Len(requests[key])
                /\ get_reset_time(key)' = SeqMin(Prune(requests[key], now - time_window)) + time_window
          /\ llast'.ok => Len(requests'[key]) = Len(Pruned(key)) + 1]_vars

\* a key was denied twice in a row while another key holds instants
C23_Witness ==
    /\ llast.op = "check" /\ ~llast.ok
    /\ Len(lhist[llast.key]) >= 2
    /\ ~lhist[llast.key][Len(lhist[llast.key]) - 1].ok
    /\ \E k2 \in DOMAIN requests : k2 # llast.key /\ requests[k2] # <<>>

\* a GET or HEAD request under a cacheable prefix and under no excluded prefix
MayBeCached(req) ==
    /\ req.method \in {"GET", "HEAD"}
    /\ UnderCacheablePrefix(req.path) /\ ~UnderExcludedPrefix(req.path)
Successful(status) == status \in 200..399

OnlyGoodEntries ==
    /\ \A i \in 1..Len(cache) :
          /\ Successful(cache[i].data.status_code)
          /\ \E r \in WebRequests :
                /\ MayBeCached(wreq[r]) /\ get_cache_key(wreq[r]) = cache[i].key
                /\ wpc[r] = "done" /\ wresp[r].handler = cache[i].data.status_code
    /\ \A r \in WebRequests :
          /\ (wpc[r] = "done" /\ wresp[r].from = "cache") =>
                MayBeCached(wreq[r]) /\ Successful(wresp[r].status)
    /\ hits + misses = Cardinality({r \in WebRequests : wpc[r] # "none" /\ MayBeCached(wreq[r])})

\* C24: an entry is created only for a GET or HEAD request on a cacheable,
\* non-excluded path whose handler answered with a status in 200..399; other
\* requests neither read nor write the cache; no error response is served from
\* the cache.
C24_OnlySuccessfulCacheableStored ==
    /\ []OnlyGoodEntries
    /\ [][\A r \in WebRequests : wpc'[r] # wpc[r] =>
            /\ ~MayBeCached(wreq'[r]) => cache' = cache /\ hits' = hits /\ misses' = misses
            /\ (wpc'[r] = "done" /\ ~Successful(wresp'[r].handler)) =>
                  \A i \in 1..Len(cache') : \E j \in 1..Len(cache) : cache'[i] = cache[j]]_vars

\* a POST and a 404 on the cacheable path left the cache empty, then a 200 was
\* stored
C24_Witness ==
    /\ Len(cache) = 1 /\ cache[1].data.status_code = 200
    /\ \E r1, r2 \in WebRequests :
          /\ wpc[r1] = "done" /\ wpc[r2] = "done"
          /\ wreq[r1].path = wreq[r2].path
          /\ (wreq[r1].method = "POST" \/ wresp[r1].handler = 404)
          /\ wresp[r2].xcache = "MISS"

\* a 2xx answer with a JSON object whose data is a dict
WellFormed(r) == r.key /\ r.net = "ok" /\ r.status = 200 /\ r.json = "object" /\ r.data = "dict"

\* C25 (as stated): the lookup returns 0 for every answer that marks the IP as
\* whitelisted, the provider's score, an integer 0..100, for other well-formed
\* 2xx answers, and null for any other answer.
C25_WhitelistedIsZero ==
    ascore # Pending =>
        IF WellFormed(aresp) /\ aresp.whitelisted THEN ascore = 0
        ELSE IF WellFormed(aresp) /\ aresp.score_kind = "int"
        THEN ascore = aresp.score /\ ascore \in 0..100
        ELSE ascore = NoScore

\* the instants the AlertingClient's limiter holds for "send_alert"
LegacyInstants == IF "send_alert" \in DOMAIN requests THEN requests["send_alert"] ELSE <<>>
BadPayload(a) ==
    \/ a.severity \notin {"critical", "error", "warning", "info"}
    \/ a.messageLen > 1000

\* C26: send_alert_legacy is gated by the limiter under the key "send_alert":
\* every call that reaches a channel holds an instant of the key's window, which
\* never holds more than max_requests instants of one window; a call the
\* limiter denies invokes no channel send, nor does a call with an invalid
\* payload.
C26_LegacyGated ==
    /\ [](/\ LiveCount(LegacyInstants) <= max_requests
          /\ (dret.entry = "legacy" /\ dret.path \in {"denied", "invalid"}) => dret.out = <<>>)
    /\ [][\A alert \in AlertInputs, filter \in Filters : send_alert_legacy(alert, filter) =>
            LET live == Prune(LegacyInstants, now - time_window)
            IN /\ Len(live) >= max_requests =>
                     dret'.path = "denied" /\ dret'.out = <<>> /\ requests'["send_alert"] = live
               /\ BadPayload(alert) => dret'.out = <<>>
               /\ dret'.out # <<>> =>
                     /\ Len(live) < max_requests
                     /\ requests'["send_alert"] = Append(live, now)]_vars

\* the window is full and the last call was denied
C26_Witness ==
    /\ dret.entry = "legacy" /\ dret.path = "denied"
    /\ Len(LegacyInstants) = max_requests
    /\ LiveCount(LegacyInstants) = max_requests

\* the coroutines that are between the first and the last statement of a check
MidCheck == { c \in Coroutines : kpc[c] \in {"prune", "test", "append"} }

\* the coroutines admitted with a local now inside the window that ends at w
AdmittedIn(w) ==
    { c \in Coroutines : kres[c] = "allowed" /\ w - time_window < know[c] /\ know[c] <= w }

\* C27: on the single event loop a check runs from its prune to its append
\* without another coroutine's check in between (at most one coroutine is
\* inside check_rate_limit, and it is the running one), and no window ever
\* holds more than max_requests admitted callers of the key
C27_CheckIsAtomic ==
    /\ Cardinality(MidCheck) <= 1
    /\ \A c \in MidCheck : running = c
    /\ \A w \in 0..MaxTime : Cardinality(AdmittedIn(w)) <= max_requests

\* concurrent callers of one key in one window, the limit reached: one was
\* admitted and a later one refused
C27_Witness ==
    \E c1, c2 \in Coroutines :
        /\ c1 # c2
        /\ kres[c1] = "allowed" /\ kres[c2] = "denied"
        /\ know[c2] - know[c1] < time_window
        /\ Cardinality(AdmittedIn(know[c2])) = max_requests

\* C30: a set on a key that is already present replaces that key's entry only:
\* every other entry is still there afterwards and the size is unchanged,
\* at capacity or not
C30_OverwriteKeepsOtherKeys ==
    [][\A key \in CKeys, value \in Values, ttl \in TtlArgs :
          (cache_set(key, value, ttl) /\ CIndex(cache, key) # 0) =>
          /\ Len(cache') = Len(cache)
          /\ \A i \in 1..Len(cache) :
                cache[i].key # key => \E j \in 1..Len(cache') : cache'[j] = cache[i]]_vars

\* C28: every answered request on a path that is not excluded from rate
\* limiting went through the limiter first, which admitted it (consuming a
\* slot) or answered 429; a request answered from the cache has passed it too,
\* so a 200 is only ever given to an admitted request
C28_EveryAnswerPassedTheLimiter ==
    \A r \in WebRequests :
        (wpc[r] = "done" /\ ~Excluded(wreq[r].path)) =>
            /\ wlim[r] \in {"passed", "denied"}
            /\ wlim[r] = "denied" => wresp[r].status = TooMany.status
            /\ wresp[r].status = 200 => wlim[r] = "passed"

\* C29: a response served from the cache was made for the caller who now
\* receives it: requests with different Authorization never share an entry
C29_NoEntrySharedAcrossCallers ==
    \A r \in WebRequests :
        (wpc[r] = "done" /\ wresp[r].from = "cache") => wresp[r].content = wreq[r].auth


====
